---- MODULE Spec2Model ----
(***************************************************************************)
(* pyval: e-mail address validation.  A string is the sequence of its      *)
(* UTF-8 bytes (Rust's &str / as_bytes()), a byte is a number in 0..255.   *)
(* The validators are pure functions, modelled as operators that follow    *)
(* the control flow of the Rust source; the state machine draws an input   *)
(* address and a flag and applies the public entry points to it.           *)
(***************************************************************************)
EXTENDS Integers, Sequences, FiniteSets, TLC

VARIABLES email, allow_smtputf8, validated, revalidated, valid, ultra,
          detailed, emails, results, adaptive, buckets, threads, log

vars == <<email, allow_smtputf8, validated, revalidated, valid, ultra,
          detailed, emails, results, adaptive, buckets, threads, log>>

(***************************************************************************)
(* Bytes and strings                                                       *)
(***************************************************************************)

\* The byte literals the source writes as b'@', b'.', b'-', '[', ']'
At == 64
Dot == 46
Hyphen == 45
LBracket == 91
RBracket == 93

Rep(c, n) == [i \in 1..n |-> c]

Min(S) == CHOOSE x \in S : \A y \in S : x <= y

is_ascii_lowercase(b) == b \in 97..122
is_ascii_uppercase(b) == b \in 65..90
is_ascii_alphabetic(b) == is_ascii_lowercase(b) \/ is_ascii_uppercase(b)
is_ascii_digit(b) == b \in 48..57
is_ascii_alphanumeric(b) == is_ascii_alphabetic(b) \/ is_ascii_digit(b)
to_ascii_lowercase(b) == IF is_ascii_uppercase(b) THEN b + 32 ELSE b
is_ascii(s) == \A i \in 1..Len(s) : s[i] < 128

\* str::contains(char) for an ASCII char
contains(s, c) == \E i \in 1..Len(s) : s[i] = c

\* The positions of the '@' bytes of a string
at_positions(e) == {i \in 1..Len(e) : e[i] = At}

\* str::starts_with / str::ends_with
starts_with(s, p) == Len(s) >= Len(p) /\ SubSeq(s, 1, Len(p)) = p
ends_with(s, p) == Len(s) >= Len(p) /\ SubSeq(s, Len(s) - Len(p) + 1, Len(s)) = p

\* str::split(char): the pieces between the separators, n + 1 pieces for n
\* separators (empty pieces included).
split(s, c) ==
    LET P == {i \in 1..Len(s) : s[i] = c}
        n == Cardinality(P)
        Nth(k) == CHOOSE p \in P : Cardinality({q \in P : q < p}) = k - 1
        first(k) == IF k = 1 THEN 1 ELSE Nth(k - 1) + 1
        last(k) == IF k = n + 1 THEN Len(s) ELSE Nth(k) - 1
    IN [k \in 1..(n + 1) |-> SubSeq(s, first(k), last(k))]

\* The loops of the source over the bytes of a string, split in halves so that
\* the evaluation stays shallow: the concatenation F(lo) \o ... \o F(hi), and
\* the loop "for i in lo..=hi { if Stop(st) { break }; st = F(st, i) }".
RECURSIVE ConcatRange(_, _, _)
ConcatRange(F(_), lo, hi) ==
    IF lo > hi THEN <<>>
    ELSE IF lo = hi THEN F(lo)
    ELSE LET mid == (lo + hi) \div 2
         IN ConcatRange(F, lo, mid) \o ConcatRange(F, mid + 1, hi)

RECURSIVE FoldRange(_, _, _, _, _)
FoldRange(F(_, _), Stop(_), st, lo, hi) ==
    IF lo > hi THEN st
    ELSE IF lo = hi THEN (IF Stop(st) THEN st ELSE F(st, lo))
    ELSE LET mid == (lo + hi) \div 2
             left == FoldRange(F, Stop, st, lo, mid)
         IN IF Stop(left) THEN left ELSE FoldRange(F, Stop, left, mid + 1, hi)

\* [&str]::join(char)
join(parts, c) ==
    ConcatRange(LAMBDA k : IF k = 1 THEN parts[1] ELSE <<c>> \o parts[k], 1, Len(parts))

\* White_Space code points that occur in the inputs (all of them ASCII).
is_whitespace(b) == b \in {9, 10, 11, 12, 13, 32}

\* str::trim: strip leading and trailing whitespace.
trim(s) ==
    LET keep == {i \in 1..Len(s) : ~is_whitespace(s[i])}
    IN IF keep = {} THEN <<>>
       ELSE SubSeq(s, Min(keep), CHOOSE j \in keep : \A k \in keep : k <= j)

\* str::chars: the Unicode scalar values of a well-formed UTF-8 string, one
\* for each byte that is not a continuation byte.
char_at(s, i) ==
    LET b == s[i] IN
    IF b < 128 THEN b
    ELSE IF b < 224 THEN (b - 192) * 64 + (s[i + 1] - 128)
    ELSE IF b < 240 THEN (b - 224) * 4096 + (s[i + 1] - 128) * 64 + (s[i + 2] - 128)
    ELSE (b - 240) * 262144 + (s[i + 1] - 128) * 4096 + (s[i + 2] - 128) * 64
         + (s[i + 3] - 128)

chars(s) ==
    ConcatRange(LAMBDA i : IF s[i] \in 128..191 THEN <<>> ELSE <<char_at(s, i)>>, 1, Len(s))

\* char -> UTF-8 bytes
encode_utf8(c) ==
    IF c < 128 THEN <<c>>
    ELSE IF c < 2048 THEN <<192 + (c \div 64), 128 + (c % 64)>>
    ELSE IF c < 65536
         THEN <<224 + (c \div 4096), 128 + ((c \div 64) % 64), 128 + (c % 64)>>
    ELSE <<240 + (c \div 262144), 128 + ((c \div 4096) % 64),
           128 + ((c \div 64) % 64), 128 + (c % 64)>>

\* Iterator<char>::collect::<String>()
collect(cs) == ConcatRange(LAMBDA i : encode_utf8(cs[i]), 1, Len(cs))

\* Canonical composition (unicode_normalization's nfc()) on the characters of
\* the inputs: a base letter followed by U+0308 COMBINING DIAERESIS composes to
\* the precomposed letter (u -> U+00FC, U -> U+00DC); every other character of
\* the inputs is already composed and is left alone.
nfc_composes(cs, i) == i < Len(cs) /\ cs[i] \in {117, 85} /\ cs[i + 1] = 776

nfc_chars(cs) ==
    ConcatRange(LAMBDA i : IF nfc_composes(cs, i) THEN <<cs[i] + 135>>
                           ELSE IF i > 1 /\ nfc_composes(cs, i - 1) THEN <<>>
                           ELSE <<cs[i]>>,
                1, Len(cs))

nfc(s) == collect(nfc_chars(chars(s)))

(***************************************************************************)
(* Results                                                                 *)
(***************************************************************************)

Err(kind) == [ok |-> FALSE, err |-> kind]
OkUnit == [ok |-> TRUE]
OkValue(v) == [ok |-> TRUE, value |-> v]

\* A slice or an index out of bounds: the call unwinds and returns no Result
Panic == [ok |-> FALSE, err |-> "panic"]

\* EmailError
EmailError == {"Empty", "MissingAt", "MultipleAt", "LeadingDot", "TrailingDot",
               "ConsecutiveDots", "LocalPartTooLong", "DomainTooLong",
               "InvalidDomain", "InvalidCharacter", "Generic"}

(***************************************************************************)
(* syntax.rs: the local part                                               *)
(***************************************************************************)

\* The ASCII atext bytes of is_valid_local_byte (and of the lookup table):
\* ! # $ % & ' * + - / = ? ^ _ ` { | } ~
atext_punct == {33, 35, 36, 37, 38, 39, 42, 43, 45, 47, 61, 63, 94, 95, 96,
                123, 124, 125, 126}

\* is_valid_local_byte with the bytes 128..255 accepted whatever the flag
is_valid_local_byte_high_always(b, allow) ==
    \/ is_ascii_alphanumeric(b)
    \/ b \in atext_punct
    \/ b = Dot
    \/ b \in 128..255

is_valid_local_byte(b, allow) ==
    \/ is_ascii_alphanumeric(b)
    \/ b \in atext_punct
    \/ b = Dot
    \/ (b \in 128..255 /\ allow)

is_control(c) == c \in 0..31 \/ c \in 127..159

\* is_unsafe_unicode without the byte-order mark
is_unsafe_unicode_no_bom(c) ==
    \/ is_control(c)
    \/ c \in 8203..8205

is_unsafe_unicode(c) ==
    \/ is_control(c)
    \/ c \in 8203..8205
    \/ c = 65279

\* The single pass of validate_local_part over the bytes: the set of indices
\* at which the loop returns an error, and the error of the first of them.
local_pass_error_at(bytes, allow, i) ==
    IF bytes[i] = Dot
    THEN i > 1 /\ bytes[i - 1] = Dot
    ELSE ~is_valid_local_byte(bytes[i], allow) /\ ~(bytes[i] >= 128 /\ allow)

\* validate_local_part without the scan for unsafe Unicode characters
validate_local_part_no_unicode_scan(local, allow) ==
    IF local = <<>> THEN Err("Empty")
    ELSE IF Len(local) > 64 THEN Err("LocalPartTooLong")
    ELSE IF local[1] = Dot THEN Err("LeadingDot")
    ELSE IF local[Len(local)] = Dot THEN Err("TrailingDot")
    ELSE IF \E i \in 1..Len(local) : local_pass_error_at(local, allow, i)
         THEN (IF local[Min({i \in 1..Len(local) : local_pass_error_at(local, allow, i)})] = Dot
               THEN Err("ConsecutiveDots") ELSE Err("InvalidCharacter"))
    ELSE OkUnit

\* validate_local_part with the length check moved behind the two dot checks
validate_local_part_late_length(local, allow) ==
    IF local = <<>> THEN Err("Empty")
    ELSE IF local[1] = Dot THEN Err("LeadingDot")
    ELSE IF local[Len(local)] = Dot THEN Err("TrailingDot")
    ELSE IF Len(local) > 64 THEN Err("LocalPartTooLong")
    ELSE IF \E i \in 1..Len(local) : local_pass_error_at(local, allow, i)
         THEN Err("InvalidCharacter")
    ELSE OkUnit

\* validate_local_part with the test of the last byte ahead of the test of
\* the first
validate_local_part_trailing_first(local, allow) ==
    IF local = <<>> THEN Err("Empty")
    ELSE IF Len(local) > 64 THEN Err("LocalPartTooLong")
    ELSE IF local[Len(local)] = Dot THEN Err("TrailingDot")
    ELSE IF local[1] = Dot THEN Err("LeadingDot")
    ELSE LET bad == {i \in 1..Len(local) : local_pass_error_at(local, allow, i)}
         IN IF bad # {}
            THEN (IF local[Min(bad)] = Dot THEN Err("ConsecutiveDots")
                  ELSE Err("InvalidCharacter"))
            ELSE IF allow /\ (\E i \in 1..Len(local) : local[i] >= 128)
                          /\ (LET cs == chars(local)
                              IN \E k \in 1..Len(cs) :
                                    cs[k] > 127 /\ is_unsafe_unicode(cs[k]))
                 THEN Err("InvalidCharacter")
                 ELSE OkUnit

validate_local_part(local, allow) ==
    IF local = <<>> THEN Err("Empty")
    ELSE IF Len(local) > 64 THEN Err("LocalPartTooLong")
    ELSE IF local[1] = Dot THEN Err("LeadingDot")
    ELSE IF local[Len(local)] = Dot THEN Err("TrailingDot")
    ELSE LET bad == {i \in 1..Len(local) : local_pass_error_at(local, allow, i)}
         IN IF bad # {}
            THEN (IF local[Min(bad)] = Dot THEN Err("ConsecutiveDots")
                  ELSE Err("InvalidCharacter"))
            ELSE IF allow /\ (\E i \in 1..Len(local) : local[i] >= 128)
                          /\ (LET cs == chars(local)
                              IN \E k \in 1..Len(cs) :
                                    cs[k] > 127 /\ is_unsafe_unicode(cs[k]))
                 THEN Err("InvalidCharacter")
                 ELSE OkUnit

(***************************************************************************)
(* domain.rs: the domain                                                   *)
(***************************************************************************)

\* Punycode (RFC 3492), the encoding idna::domain_to_ascii applies to a label
\* that has a non-ASCII character.
Puny == [base |-> 36, tmin |-> 1, tmax |-> 26, skew |-> 38, damp |-> 700,
         initial_bias |-> 72, initial_n |-> 128]

puny_digit(d) == IF d < 26 THEN 97 + d ELSE 22 + d

RECURSIVE puny_adapt_loop(_, _)
puny_adapt_loop(d, k) ==
    IF d > ((Puny.base - Puny.tmin) * Puny.tmax) \div 2
    THEN puny_adapt_loop(d \div (Puny.base - Puny.tmin), k + Puny.base)
    ELSE k + ((Puny.base - Puny.tmin + 1) * d) \div (d + Puny.skew)

puny_adapt(delta, numpoints, first) ==
    LET d0 == IF first THEN delta \div Puny.damp ELSE delta \div 2
    IN puny_adapt_loop(d0 + (d0 \div numpoints), 0)

RECURSIVE puny_varint(_, _, _)
puny_varint(q, k, bias) ==
    LET t == IF k <= bias THEN Puny.tmin
             ELSE IF k >= bias + Puny.tmax THEN Puny.tmax ELSE k - bias
    IN IF q < t THEN <<puny_digit(q)>>
       ELSE <<puny_digit(t + ((q - t) % (Puny.base - t)))>>
            \o puny_varint((q - t) \div (Puny.base - t), k + Puny.base, bias)

\* The encoder fails when delta overflows its integer width (the inputs stay
\* far below it; the width kept here is that of a 32-bit signed integer).
puny_overflow(st) == st.delta >= 2147483647

\* One pass over the code points for the current code point n
puny_inner(cs, b, n, st0) ==
    FoldRange(LAMBDA st, i :
                  IF cs[i] < n THEN [st EXCEPT !.delta = @ + 1]
                  ELSE IF cs[i] = n
                       THEN [delta |-> 0,
                             bias |-> puny_adapt(st.delta, st.h + 1, st.h = b),
                             h |-> st.h + 1,
                             out |-> st.out \o puny_varint(st.delta, Puny.base, st.bias)]
                  ELSE st,
              puny_overflow, st0, 1, Len(cs))

RECURSIVE puny_outer(_, _, _, _)
puny_outer(cs, b, n, st) ==
    IF st.h >= Len(cs) \/ puny_overflow(st) THEN st
    ELSE LET m == Min({cs[i] : i \in {j \in 1..Len(cs) : cs[j] >= n}})
             st1 == puny_inner(cs, b, m, [st EXCEPT !.delta = @ + (m - n) * (st.h + 1)])
         IN puny_outer(cs, b, m + 1, [st1 EXCEPT !.delta = @ + 1])

puny_result(st) == IF puny_overflow(st) THEN [ok |-> FALSE] ELSE OkValue(st.out)

puny_start(cs, basic) ==
    puny_outer(cs, Len(basic), Puny.initial_n,
               [delta |-> 0, bias |-> Puny.initial_bias, h |-> Len(basic),
                out |-> basic \o (IF Len(basic) > 0 THEN <<Hyphen>> ELSE <<>>)])

punycode(cs) == puny_result(puny_start(cs, SelectSeq(cs, LAMBDA c : c < 128)))

\* UTS #46 mapping of one character: ASCII and Latin-1 capitals are case-folded,
\* ZERO WIDTH SPACE and the byte-order mark are ignored (mapped to nothing).
uts46_map(c) ==
    IF c < 128 THEN <<to_ascii_lowercase(c)>>
    ELSE IF c = 220 THEN <<252>>
    ELSE IF c = 8203 \/ c = 65279 THEN <<>>
    ELSE <<c>>

uts46_map_all(cs) == ConcatRange(LAMBDA i : uts46_map(cs[i]), 1, Len(cs))

\* A character UTS #46 disallows: the C1 controls (the ASCII range is allowed,
\* domain_to_ascii does not apply the STD3 rules).
uts46_disallowed(c) == c \in 128..159

\* One label to its ASCII form: an ASCII label is kept, any other is
\* "xn--" followed by its Punycode.
ace_label(encoded) ==
    IF encoded.ok THEN OkValue(<<120, 110, Hyphen, Hyphen>> \o encoded.value)
    ELSE [ok |-> FALSE]

label_to_ascii(label) ==
    IF \A i \in 1..Len(label) : label[i] < 128 THEN OkValue(label)
    ELSE ace_label(punycode(label))

\* idna::domain_to_ascii: map and normalize, reject a disallowed character and
\* a label that starts with a combining mark, then encode label by label.
idna_join(encoded) ==
    IF \E k \in 1..Len(encoded) : ~encoded[k].ok THEN [ok |-> FALSE]
    ELSE OkValue(join([k \in 1..Len(encoded) |-> encoded[k].value], Dot))

idna_labels(labels) ==
    IF \E k \in 1..Len(labels) : labels[k] # <<>> /\ labels[k][1] = 776
    THEN [ok |-> FALSE]
    ELSE idna_join([k \in 1..Len(labels) |-> label_to_ascii(labels[k])])

idna_process(cs) ==
    IF \E i \in 1..Len(cs) : uts46_disallowed(cs[i]) THEN [ok |-> FALSE]
    ELSE idna_labels(split(cs, Dot))

domain_to_ascii(domain) == idna_process(nfc_chars(uts46_map_all(chars(domain))))

\* "<u8>".parse(): one to three decimal digits, no leading zero, at most 255.
is_ipv4_octet(g) ==
    /\ Len(g) \in 1..3
    /\ \A i \in 1..Len(g) : is_ascii_digit(g[i])
    /\ (Len(g) > 1 => g[1] # 48)
    /\ (Len(g) = 3 => (g[1] - 48) * 100 + (g[2] - 48) * 10 + (g[3] - 48) <= 255)

\* str::parse::<std::net::Ipv4Addr>(): four octets separated by dots.
parse_ipv4(s) ==
    LET parts == split(s, Dot)
    IN Len(parts) = 4 /\ \A k \in 1..4 : is_ipv4_octet(parts[k])

is_hex_digit(b) == is_ascii_digit(b) \/ b \in 97..102 \/ b \in 65..70

is_ipv6_group(g) == Len(g) \in 1..4 /\ \A i \in 1..Len(g) : is_hex_digit(g[i])

\* The number of 16-bit groups a colon-separated run stands for, or -1 when a
\* piece is neither a hex group nor (in the last place, when allowed) a
\* dotted quad, which stands for two groups.
ipv6_groups(parts, v4_last) ==
    IF \A k \in 1..Len(parts) : is_ipv6_group(parts[k]) THEN Len(parts)
    ELSE IF /\ v4_last
            /\ Len(parts) >= 1
            /\ \A k \in 1..(Len(parts) - 1) : is_ipv6_group(parts[k])
            /\ parse_ipv4(parts[Len(parts)])
         THEN Len(parts) + 1
    ELSE -1

ipv6_run(run, v4_last) ==
    IF run = <<>> THEN 0 ELSE ipv6_groups(split(run, 58), v4_last)

\* The groups before and after the "::", which stands for at least one group
ipv6_compressed(head_groups, tail_groups) ==
    head_groups >= 0 /\ tail_groups >= 0 /\ head_groups + tail_groups <= 7

ipv6_with_gaps(s, dc) ==
    IF dc = {} THEN ipv6_groups(split(s, 58), TRUE) = 8
    ELSE IF Cardinality(dc) > 1 THEN FALSE
    ELSE ipv6_compressed(ipv6_run(SubSeq(s, 1, Min(dc) - 1), FALSE),
                         ipv6_run(SubSeq(s, Min(dc) + 2, Len(s)), TRUE))

\* str::parse::<std::net::Ipv6Addr>(): eight groups, or fewer around one "::";
\* a dotted quad may end the address.
parse_ipv6(s) ==
    ipv6_with_gaps(s, {i \in 1..(Len(s) - 1) : s[i] = 58 /\ s[i + 1] = 58})

ascii_to_lower_bytes(s) == [i \in 1..Len(s) |-> to_ascii_lowercase(s[i])]

IPv6Prefix == <<73, 80, 118, 54, 58>>   \* "IPv6:"

\* ip_literal_inner with the tag "IPv6:" recognised in any case
ip_literal_inner_any_case(domain, inner) ==
    IF starts_with(ascii_to_lower_bytes(inner), ascii_to_lower_bytes(IPv6Prefix))
    THEN (IF parse_ipv6(SubSeq(inner, Len(IPv6Prefix) + 1, Len(inner)))
          THEN OkValue(domain) ELSE Err("InvalidDomain"))
    ELSE (IF parse_ipv4(inner) THEN OkValue(domain) ELSE Err("InvalidDomain"))

ip_literal_inner(domain, inner) ==
    IF starts_with(inner, IPv6Prefix)
    THEN (IF parse_ipv6(SubSeq(inner, Len(IPv6Prefix) + 1, Len(inner)))
          THEN OkValue(domain) ELSE Err("InvalidDomain"))
    ELSE (IF parse_ipv4(inner) THEN OkValue(domain) ELSE Err("InvalidDomain"))

\* &domain[1..domain.len()-1] is out of bounds for a domain of one byte
validate_ip_literal(domain) ==
    IF Len(domain) < 2 THEN Panic
    ELSE ip_literal_inner(domain, SubSeq(domain, 2, Len(domain) - 1))

\* validate_domain_label reporting a byte that is no label byte as Generic
validate_domain_label_generic(label) ==
    IF label = <<>> THEN Err("ConsecutiveDots")
    ELSE IF Len(label) > 63 THEN Err("InvalidDomain")
    ELSE IF label[1] = Hyphen \/ label[Len(label)] = Hyphen THEN Err("InvalidDomain")
    ELSE IF \E i \in 1..Len(label) :
                ~is_ascii_alphanumeric(label[i]) /\ label[i] # Hyphen
         THEN Err("Generic")
         ELSE OkUnit

validate_domain_label(label) ==
    IF label = <<>> THEN Err("ConsecutiveDots")
    ELSE IF Len(label) > 63 THEN Err("InvalidDomain")
    ELSE IF label[1] = Hyphen \/ label[Len(label)] = Hyphen THEN Err("InvalidDomain")
    ELSE IF \E i \in 1..Len(label) :
                ~is_ascii_alphanumeric(label[i]) /\ label[i] # Hyphen
         THEN Err("InvalidCharacter")
         ELSE OkUnit

\* The loop over the labels: the error of the first label that has one
first_label_error(labels, bad) ==
    IF bad = {} THEN OkUnit ELSE validate_domain_label(labels[Min(bad)])

validate_labels(labels) ==
    first_label_error(labels, {k \in 1..Len(labels) : ~validate_domain_label(labels[k]).ok})

\* validate_domain from the ASCII form on: the dot, the all-numeric check and
\* the labels
\* validate_ascii_labels without the all-numeric check
validate_ascii_labels_no_numeric(ascii_domain, labels) ==
    IF ~contains(ascii_domain, Dot) THEN Err("InvalidDomain")
    ELSE IF ~validate_labels(labels).ok THEN validate_labels(labels)
    ELSE OkValue(ascii_domain)

validate_ascii_labels(ascii_domain, labels) ==
    IF ~contains(ascii_domain, Dot) THEN Err("InvalidDomain")
    ELSE IF \A k \in 1..Len(labels) :
               \A i \in 1..Len(labels[k]) : is_ascii_digit(labels[k][i])
         THEN Err("InvalidDomain")
    ELSE IF ~validate_labels(labels).ok THEN validate_labels(labels)
    ELSE OkValue(ascii_domain)

validate_mapped(mapped) ==
    IF ~mapped.ok THEN Err("InvalidDomain")
    ELSE validate_ascii_labels(mapped.value, split(mapped.value, Dot))

\* validate_domain with the bracketed form recognised by its first byte alone
validate_domain_open_bracket(domain) ==
    IF domain = <<>> THEN Err("InvalidDomain")
    ELSE IF domain[1] = LBracket THEN validate_ip_literal(domain)
    ELSE IF Len(domain) > 253 THEN Err("DomainTooLong")
    ELSE validate_mapped(domain_to_ascii(domain))

validate_domain(domain) ==
    IF domain = <<>> THEN Err("InvalidDomain")
    ELSE IF domain[1] = LBracket /\ domain[Len(domain)] = RBracket
         THEN validate_ip_literal(domain)
    ELSE IF Len(domain) > 253 THEN Err("DomainTooLong")
    ELSE validate_mapped(domain_to_ascii(domain))

(***************************************************************************)
(* validator.rs: the structural validator                                  *)
(***************************************************************************)

ascii_to_lower(s) ==
    IF \A i \in 1..Len(s) : is_ascii_lowercase(s[i]) \/ ~is_ascii_alphabetic(s[i])
    THEN s
    ELSE [i \in 1..Len(s) |-> IF is_ascii_uppercase(s[i]) THEN to_ascii_lowercase(s[i])
                                                          ELSE s[i]]

\* validate_parts with the whole normalized address lowercased
validate_parts_lowercase_all(e, local_part, domain, local_result, domain_result) ==
    IF ~local_result.ok THEN local_result
    ELSE IF ~domain_result.ok THEN domain_result
    ELSE [ok |-> TRUE,
          original |-> e,
          local_part |-> local_part,
          domain |-> domain,
          normalized |-> ascii_to_lower((IF is_ascii(local_part) THEN local_part
                                         ELSE nfc(local_part))
                                        \o <<At>> \o domain_result.value),
          ascii_domain |-> domain_result.value,
          smtputf8 |-> ~is_ascii(local_part)]

\* validate_parts with smtputf8 computed from the whole address
validate_parts_smtputf8_any(e, local_part, domain, local_result, domain_result) ==
    IF ~local_result.ok THEN local_result
    ELSE IF ~domain_result.ok THEN domain_result
    ELSE [ok |-> TRUE,
          original |-> e,
          local_part |-> local_part,
          domain |-> domain,
          normalized |-> (IF is_ascii(local_part) THEN local_part ELSE nfc(local_part))
                         \o <<At>> \o ascii_to_lower(domain_result.value),
          ascii_domain |-> domain_result.value,
          smtputf8 |-> ~is_ascii(e)]

\* validate_parts with the domain's error propagated before the local part's
validate_parts_domain_first(e, local_part, domain, local_result, domain_result) ==
    IF ~domain_result.ok THEN domain_result
    ELSE IF ~local_result.ok THEN local_result
    ELSE [ok |-> TRUE,
          original |-> e,
          local_part |-> local_part,
          domain |-> domain,
          normalized |-> (IF is_ascii(local_part) THEN local_part ELSE nfc(local_part))
                         \o <<At>> \o ascii_to_lower(domain_result.value),
          ascii_domain |-> domain_result.value,
          smtputf8 |-> ~is_ascii(local_part)]

\* validate_parts with the ASCII form stored as the domain
validate_parts_domain_mapped(e, local_part, domain, local_result, domain_result) ==
    IF ~local_result.ok THEN local_result
    ELSE IF ~domain_result.ok THEN domain_result
    ELSE [ok |-> TRUE,
          original |-> e,
          local_part |-> local_part,
          domain |-> domain_result.value,
          normalized |-> (IF is_ascii(local_part) THEN local_part ELSE nfc(local_part))
                         \o <<At>> \o ascii_to_lower(domain_result.value),
          ascii_domain |-> domain_result.value,
          smtputf8 |-> ~is_ascii(local_part)]

\* EmailValidator::validate after both parts were validated: the errors are
\* propagated, local part first, and the result is built.
validate_parts(e, local_part, domain, local_result, domain_result) ==
    IF ~local_result.ok THEN local_result
    ELSE IF ~domain_result.ok THEN domain_result
    ELSE [ok |-> TRUE,
          original |-> e,
          local_part |-> local_part,
          domain |-> domain,
          normalized |-> (IF is_ascii(local_part) THEN local_part ELSE nfc(local_part))
                         \o <<At>> \o ascii_to_lower(domain_result.value),
          ascii_domain |-> domain_result.value,
          smtputf8 |-> ~is_ascii(local_part)]

validate_split(e, local_part, domain, allow) ==
    validate_parts(e, local_part, domain,
                   validate_local_part(local_part, allow), validate_domain(domain))

\* validate_trimmed with the early return at the third '@' instead of the second
validate_trimmed_third_at(e, allow, ats) ==
    IF e = <<>> THEN Err("Empty")
    ELSE IF Cardinality(ats) > 2 THEN Err("MultipleAt")
    ELSE IF ats = {} THEN Err("MissingAt")
    ELSE validate_split(e, SubSeq(e, 1, Min(ats) - 1), SubSeq(e, Min(ats) + 1, Len(e)),
                        allow)

\* The loop that counts the '@' of the trimmed address
validate_trimmed(e, allow, ats) ==
    IF e = <<>> THEN Err("Empty")
    ELSE IF Cardinality(ats) > 1 THEN Err("MultipleAt")
    ELSE IF ats = {} THEN Err("MissingAt")
    ELSE validate_split(e, SubSeq(e, 1, Min(ats) - 1), SubSeq(e, Min(ats) + 1, Len(e)),
                        allow)

validate_at(e, allow) == validate_trimmed(e, allow, at_positions(e))

\* EmailValidator::validate with the flag allow_smtputf8 = allow
validate(raw, allow) == validate_at(trim(raw), allow)

(***************************************************************************)
(* lazy.rs: the zero-copy finite-state scanner                             *)
(***************************************************************************)

is_local_char(b) == is_ascii_alphanumeric(b) \/ b \in atext_punct

\* is_domain_char letting every byte of a multi-byte character through
is_domain_char_with_high(b) == is_ascii_alphanumeric(b) \/ b = Hyphen \/ b >= 128

is_domain_char(b) == is_ascii_alphanumeric(b) \/ b = Hyphen

ParseState == {"LocalStart", "Local", "LocalDot", "DomainStart", "Domain", "DomainDot"}

\* One iteration of the byte loop: the next scanner state, or rejected = TRUE
\* where the code returns false from inside the loop.
Rejected(st) == [st EXCEPT !.rejected = TRUE]

scan_step(st, b) ==
    CASE st.state = "LocalStart" ->
           IF b = Dot THEN Rejected(st)
           ELSE [st EXCEPT !.state = "Local",
                           !.at_count = @ + (IF b = At THEN 1 ELSE 0)]
      [] st.state = "Local" ->
           IF b = At
           THEN (IF st.at_count + 1 > 1 THEN Rejected(st)
                 ELSE [st EXCEPT !.state = "DomainStart", !.at_count = @ + 1,
                                 !.dot_count = 0])
           ELSE IF b = Dot THEN [st EXCEPT !.state = "LocalDot"]
           ELSE IF is_local_char(b) THEN [st EXCEPT !.state = "Local"]
           ELSE Rejected(st)
      [] st.state = "LocalDot" ->
           IF b = Dot \/ b = At THEN Rejected(st)
           ELSE [st EXCEPT !.state = "Local",
                           !.at_count = @ + (IF b = At THEN 1 ELSE 0)]
      [] st.state = "DomainStart" ->
           IF b = Dot \/ b = Hyphen THEN Rejected(st)
           ELSE IF b = At THEN Rejected(st)
           ELSE [st EXCEPT !.state = "Domain",
                           !.dot_count = @ + (IF b = Dot THEN 1 ELSE 0)]
      [] st.state = "Domain" ->
           IF b = At THEN Rejected(st)
           ELSE IF b = Dot THEN [st EXCEPT !.state = "DomainDot", !.dot_count = @ + 1]
           ELSE IF is_domain_char(b) THEN [st EXCEPT !.state = "Domain"]
           ELSE Rejected(st)
      [] st.state = "DomainDot" ->
           IF b = Dot \/ b = Hyphen \/ b = At THEN Rejected(st)
           ELSE [st EXCEPT !.state = "Domain"]

\* The byte loop: it stops at the first rejection
scan(bytes, st0) ==
    FoldRange(LAMBDA st, i : scan_step(st, bytes[i]), LAMBDA st : st.rejected,
              st0, 1, Len(bytes))

\* The acceptance test without the dot count
scan_accepts_any_dots(st) ==
    ~st.rejected /\ st.state = "Domain" /\ st.at_count = 1

scan_accepts(st) ==
    ~st.rejected /\ st.state = "Domain" /\ st.at_count = 1 /\ st.dot_count >= 1

\* ZeroCopyValidator::validate_no_alloc
validate_no_alloc(e) ==
    IF ~(Len(e) \in 3..254) THEN FALSE
    ELSE scan_accepts(scan(e, [state |-> "LocalStart", at_count |-> 0, dot_count |-> 0,
                               rejected |-> FALSE]))

(***************************************************************************)
(* simd.rs, fastpath.rs, lookup.rs: the fast tiers                         *)
(***************************************************************************)

Some(v) == [some |-> TRUE, value |-> v]
None == [some |-> FALSE]

\* SimdValidator::is_valid_ascii: whole 8-byte chunks are tested for the high
\* bit only, the remaining bytes for the range 0x20..0x80.
is_valid_ascii(e) ==
    LET full == (Len(e) \div 8) * 8
    IN /\ \A i \in 1..full : e[i] < 128
       /\ \A i \in (full + 1)..Len(e) : e[i] \in 32..127

\* SimdValidator::count_at
count_at(e) == Cardinality(at_positions(e))

\* SimdValidator::find_at: the 0-based position of the first '@'
find_first(ats) == IF ats = {} THEN None ELSE Some(Min(ats) - 1)

find_at(e) == find_first(at_positions(e))

simd_at(e, found) ==
    IF ~found.some THEN None
    ELSE IF found.value = 0 \/ found.value = Len(e) - 1 THEN Some(FALSE)
    ELSE IF ~contains(SubSeq(e, found.value + 2, Len(e)), Dot) THEN Some(FALSE)
    ELSE Some(TRUE)

\* PortableSimd::validate_email_fast
validate_email_fast(e) ==
    IF Len(e) < 16 THEN None
    ELSE IF ~is_valid_ascii(e) THEN None
    ELSE IF count_at(e) # 1 THEN Some(FALSE)
    ELSE simd_at(e, find_at(e))

\* COMMON_DOMAINS of src/src/fastpath.rs
get_common_domains ==
    {
      <<103, 109, 97, 105, 108, 46, 99, 111, 109>>,   \* gmail.com
      <<121, 97, 104, 111, 111, 46, 99, 111, 109>>,   \* yahoo.com
      <<104, 111, 116, 109, 97, 105, 108, 46, 99, 111, 109>>,   \* hotmail.com
      <<111, 117, 116, 108, 111, 111, 107, 46, 99, 111, 109>>,   \* outlook.com
      <<105, 99, 108, 111, 117, 100, 46, 99, 111, 109>>,   \* icloud.com
      <<112, 114, 111, 116, 111, 110, 109, 97, 105, 108, 46, 99, 111, 109>>,   \* protonmail.com
      <<121, 97, 110, 100, 101, 120, 46, 99, 111, 109>>,   \* yandex.com
      <<122, 111, 104, 111, 46, 99, 111, 109>>,   \* zoho.com
      <<109, 97, 105, 108, 46, 114, 117>>,   \* mail.ru
      <<113, 113, 46, 99, 111, 109>>,   \* qq.com
      <<49, 54, 51, 46, 99, 111, 109>>,   \* 163.com
      <<49, 50, 54, 46, 99, 111, 109>>,   \* 126.com
      <<102, 111, 120, 109, 97, 105, 108, 46, 99, 111, 109>>,   \* foxmail.com
      <<108, 105, 118, 101, 46, 99, 111, 109>>,   \* live.com
      <<109, 115, 110, 46, 99, 111, 109>>,   \* msn.com
      <<97, 111, 108, 46, 99, 111, 109>>,   \* aol.com
      <<112, 114, 111, 116, 111, 110, 46, 109, 101>>,   \* proton.me
      <<104, 101, 121, 46, 99, 111, 109>>,   \* hey.com
      <<102, 97, 115, 116, 109, 97, 105, 108, 46, 99, 111, 109>>,   \* fastmail.com
      <<103, 109, 120, 46, 99, 111, 109>>,   \* gmx.com
      <<99, 111, 109, 99, 97, 115, 116, 46, 110, 101, 116>>,   \* comcast.net
      <<118, 101, 114, 105, 122, 111, 110, 46, 110, 101, 116>>,   \* verizon.net
      <<97, 116, 116, 46, 110, 101, 116>>,   \* att.net
      <<109, 101, 46, 99, 111, 109>>,   \* me.com
      <<109, 97, 99, 46, 99, 111, 109>>,   \* mac.com
      <<105, 99, 108, 111, 117, 100, 46, 99, 111, 109>>,   \* icloud.com
      <<101, 120, 97, 109, 112, 108, 101, 46, 99, 111, 109>>,   \* example.com
      <<116, 101, 115, 116, 46, 99, 111, 109>>   \* test.com
    }

is_fast_local_char(b) ==
    is_ascii_alphanumeric(b) \/ b \in {Dot, Hyphen, 95, 43, At}

is_fast_domain_char(b) == is_ascii_alphanumeric(b) \/ b \in {Dot, Hyphen}

has_dot_issues(s) ==
    IF s = <<>> THEN TRUE
    ELSE IF s[1] = Dot \/ s[Len(s)] = Dot THEN TRUE
    ELSE \E i \in 1..(Len(s) - 1) : s[i] = Dot /\ s[i + 1] = Dot

\* fast_ascii_email_check from the split at the first '@' on
fast_check_chars(local, domain) ==
    IF \E i \in 1..Len(local) : ~is_fast_local_char(local[i]) THEN None
    ELSE IF \E i \in 1..Len(domain) : ~is_fast_domain_char(domain[i]) THEN None
    ELSE IF domain \in get_common_domains THEN Some(TRUE)
    ELSE IF has_dot_issues(local) \/ has_dot_issues(domain) THEN Some(FALSE)
    ELSE Some(TRUE)

fast_check_dot(local, domain, dots) ==
    IF dots = {} THEN None
    ELSE IF Min(dots) = 1 \/ Min(dots) = Len(domain) THEN Some(FALSE)
    ELSE fast_check_chars(local, domain)

fast_check_parts(local, domain) ==
    IF contains(domain, At) THEN Some(FALSE)
    ELSE IF local = <<>> \/ Len(local) > 64 THEN Some(FALSE)
    ELSE IF Len(domain) < 3 \/ Len(domain) > 253 THEN Some(FALSE)
    ELSE fast_check_dot(local, domain, {i \in 1..Len(domain) : domain[i] = Dot})

fast_check_at(e, ats) ==
    IF ats = {} THEN None
    ELSE fast_check_parts(SubSeq(e, 1, Min(ats) - 1), SubSeq(e, Min(ats) + 1, Len(e)))

\* fast_ascii_email_check of src/src/fastpath.rs
fast_ascii_email_check(e) ==
    IF Len(e) > 254 \/ Len(e) < 3 THEN Some(FALSE)
    ELSE fast_check_at(e, at_positions(e))

\* lookup.rs: LOCAL_PART_TABLE[b] != 0 and DOMAIN_TABLE[b] != 0
is_valid_local_byte_fast(b) == is_ascii_alphanumeric(b) \/ b \in atext_punct \/ b = Dot

is_valid_domain_byte_fast(b) == is_ascii_alphanumeric(b) \/ b = Hyphen

\* The label loop of is_valid_detailed for an ASCII domain
detailed_label_ok(label) ==
    /\ label # <<>>
    /\ Len(label) <= 63
    /\ label[1] # Hyphen
    /\ label[Len(label)] # Hyphen
    /\ \A i \in 1..Len(label) : is_valid_domain_byte_fast(label[i])

\* is_valid_detailed from the domain checks on
detailed_domain(domain, labels) ==
    IF domain = <<>> \/ Len(domain) > 253 THEN FALSE
    ELSE IF ~contains(domain, Dot) THEN FALSE
    ELSE IF \A k \in 1..Len(labels) :
               \A i \in 1..Len(labels[k]) : is_ascii_digit(labels[k][i])
         THEN FALSE
    ELSE IF is_ascii(domain) THEN \A k \in 1..Len(labels) : detailed_label_ok(labels[k])
    ELSE validate_domain(domain).ok

\* is_valid_detailed from the split at the '@' on
detailed_parts(local, domain, allow) ==
    IF local = <<>> \/ Len(local) > 64 THEN FALSE
    ELSE IF local[1] = Dot \/ local[Len(local)] = Dot THEN FALSE
    ELSE IF \E i \in 1..Len(local) :
               IF local[i] = Dot THEN i > 1 /\ local[i - 1] = Dot
               ELSE ~is_valid_local_byte_fast(local[i]) /\ ~(allow /\ local[i] >= 128)
         THEN FALSE
    ELSE detailed_domain(domain, split(domain, Dot))

detailed_trimmed(e, allow, ats) ==
    IF e = <<>> THEN FALSE
    ELSE IF Cardinality(ats) # 1 THEN FALSE
    ELSE detailed_parts(SubSeq(e, 1, Min(ats) - 1), SubSeq(e, Min(ats) + 1, Len(e)), allow)

detailed_at(e, allow) == detailed_trimmed(e, allow, at_positions(e))

\* is_valid_detailed of src/src/lib.rs
is_valid_detailed(raw, allow) == detailed_at(trim(raw), allow)

\* dispatch with "unknown" from the ASCII fast check taken as a rejection
dispatch_unknown_rejects(e, allow, simd, fast) ==
    IF Len(e) >= 32 /\ simd.some THEN simd.value
    ELSE fast.some /\ fast.value

\* The tiers of is_valid_fast in their order: the first definite answer is
\* returned, the detailed validation decides when there is none.
dispatch(e, allow, simd, fast) ==
    IF Len(e) >= 32 /\ simd.some THEN simd.value
    ELSE IF fast.some THEN fast.value
    ELSE is_valid_detailed(e, allow)

\* is_valid_fast of src/src/lib.rs, the body of the exported is_valid
is_valid_fast(e, allow) ==
    dispatch(e, allow, validate_email_fast(e), fast_ascii_email_check(e))

(***************************************************************************)
(* The input addresses                                                     *)
(***************************************************************************)

\* Bounds of the input space
MaxLocalAtoms == 2
MaxLabels == 2
MaxLen == 4

\* All concatenations of at most n of the given atoms
RECURSIVE Words(_, _)
Words(atoms, n) ==
    IF n = 0 THEN {<<>>}
    ELSE LET W == Words(atoms, n - 1) IN W \cup {w \o a : w \in W, a \in atoms}

\* All domains of one to n labels of the given set, joined by dots
RECURSIVE Dotted(_, _)
Dotted(labels, n) ==
    IF n = 1 THEN labels
    ELSE LET D == Dotted(labels, n - 1) IN D \cup {d \o <<Dot>> \o l : d \in D, l \in labels}

U_UMLAUT == <<195, 188>>          \* U+00FC, precomposed
U_DECOMPOSED == <<117, 204, 136>> \* u, U+0308 COMBINING DIAERESIS
ZWSP == <<226, 128, 139>>         \* U+200B ZERO WIDTH SPACE
NEL == <<194, 133>>               \* U+0085, a C1 control

\* a  A  .  (  !  u-umlaut  u + combining diaeresis  zero-width space
LocalAtoms == {<<97>>, <<65>>, <<Dot>>, <<40>>, <<33>>,
               U_UMLAUT, U_DECOMPOSED, ZWSP}

LongLocals == {Rep(97, 30), Rep(97, 64), Rep(97, 65),
               <<Dot>> \o Rep(97, 64), Rep(40, 65)}

\* Local parts with more than one violation:  a..(  (..a  a..b.  (a.  .a..b
\* and the local part  a..b
MultiLocals == {<<97, Dot, Dot, 40>>, <<40, Dot, Dot, 97>>, <<97, Dot, Dot, 98, Dot>>,
                <<40, 97, Dot>>, <<Dot, 97, Dot, Dot, 98>>, <<97, Dot, Dot, 98>>}

\* Local parts with one non-ASCII character at and around the limits of
\* is_unsafe_unicode: U+0080, U+0085, U+009F and U+00A0; U+200A, U+200D and
\* U+200E; U+FEFF and U+FF00; alone and after the letter a.
UnsafeLocals ==
    LET cs == {<<194, 128>>, NEL, <<194, 159>>, <<194, 160>>,
               <<226, 128, 138>>, <<226, 128, 141>>, <<226, 128, 142>>,
               <<239, 187, 191>>, <<239, 188, 128>>}
    IN cs \cup {<<97>> \o c : c \in cs}

Locals == Words(LocalAtoms, MaxLocalAtoms) \cup LongLocals \cup MultiLocals \cup UnsafeLocals

CoreLocals == {<<97>>, Rep(97, 30), <<40>>, U_UMLAUT}

\* ""  b  A  1  -b  b-  b(  u-umlaut  NEL
DomainLabels == {<<>>, <<98>>, <<65>>, <<49>>, <<Hyphen, 98>>,
                 <<98, Hyphen>>, <<98, 40>>, U_UMLAUT, NEL}

IpDomains ==
    {
     <<91, 49, 46, 50, 46, 51, 46, 52, 93>>,   \* [1.2.3.4]
     <<91, 49, 46, 50, 46, 51, 93>>,   \* [1.2.3]
     <<91, 50, 53, 54, 46, 49, 46, 49, 46, 49, 93>>,   \* [256.1.1.1]
     <<91, 48, 49, 46, 50, 46, 51, 46, 52, 93>>,   \* [01.2.3.4]
     <<91, 73, 80, 118, 54, 58, 58, 58, 49, 93>>,   \* [IPv6:::1]
     <<91, 73, 80, 118, 54, 58, 49, 58, 58, 93>>,   \* [IPv6:1::]
     <<91, 73, 80, 118, 54, 58, 120, 93>>,   \* [IPv6:x]
     <<91, 73, 80, 118, 54, 58, 49, 58, 50, 58, 51, 58, 52, 58, 53, 58, 54, 58, 55, 58, 56, 93>>,   \* [IPv6:1:2:3:4:5:6:7:8]
     <<91, 73, 80, 118, 54, 58, 49, 58, 50, 58, 51, 58, 52, 58, 53, 58, 54, 58, 55, 58, 58, 56, 93>>,   \* [IPv6:1:2:3:4:5:6:7::8]
     <<91, 73, 80, 118, 54, 58, 58, 58, 49, 46, 50, 46, 51, 46, 52, 93>>,   \* [IPv6:::1.2.3.4]
     <<91, 73, 80, 118, 54, 58, 65, 58, 58, 98, 93>>,   \* [IPv6:A::b]
     <<91, 105, 112, 118, 54, 58, 58, 58, 49, 93>>,   \* [ipv6:::1]
     <<91, 93>>,   \* []
     <<91>>,   \* [
     <<91, 98, 46, 99>>,   \* [b.c
     <<49, 46, 50, 46, 51, 46, 52>>   \* 1.2.3.4
    }

CommonDomains == {<<113, 113, 46, 99, 111, 109>>,   \* qq.com
                  <<109, 101, 46, 99, 111, 109>>}   \* me.com

\* Domains at the length limits: a label of 63 and of 64 bytes, an ASCII
\* domain of 253 and of 254 bytes, and domains of non-ASCII labels whose
\* ASCII form is longer or shorter than their UTF-8 form.
LongDomains ==
    LET L(n) == Rep(98, n)
        U(n) == [i \in 1..(2 * n) |-> IF i % 2 = 1 THEN 195 ELSE 188]
        D(parts) == join(parts, Dot)
    IN {D(<<L(63), <<99>>>>), D(<<L(64), <<99>>>>),
        D(<<L(63), L(63), L(63), L(61)>>), D(<<L(63), L(63), L(63), L(62)>>),
        D([i \in 1..32 |-> U(1)]),
        D([i \in 1..5 |-> U(25)]),
        D(<<U(57), U(57), U(56), U(56)>>),
        D(<<U(57), U(57), U(57), U(56)>>)}

Domains == Dotted(DomainLabels, MaxLabels) \cup IpDomains \cup CommonDomains \cup LongDomains

CoreDomains == {<<98, Dot, 99>>, <<65, Dot, 67>>, U_UMLAUT \o <<Dot, 99>>,
                <<49, Dot, 50>>, <<Hyphen, 98, Dot, 99>>,
                <<91, 49, 46, 50, 46, 51, 46, 52, 93>>,             \* [1.2.3.4]
                <<91, 73, 80, 118, 54, 58, 58, 58, 49, 93>>,        \* [IPv6:::1]
                <<113, 113, 46, 99, 111, 109>>}                     \* qq.com

Address(l, d) == l \o <<At>> \o d

\* Free strings over  a  @  .  space
FreeStrings == Words({<<97>>, <<At>>, <<Dot>>, <<32>>}, MaxLen)

\* A valid address with surrounding whitespace, short and past 254 bytes
Padded ==
    LET abc == Address(<<97>>, <<98, Dot, 99>>)
    IN {<<32>> \o abc, abc \o <<32>>, <<32>> \o abc \o <<10>>,
        Rep(32, 250) \o abc, Address(<<97, 32>>, <<98, Dot, 99>>)}

\* Addresses for the scanner: every local part of at most MaxScan atoms of
\* a . ( u-umlaut  with every domain of at most MaxScan atoms of
\* b . - u-umlaut, domains with a byte that is no domain byte, a second '@'
\* in each state that can meet one, and addresses past 254 bytes.
MaxScan == 3

ScanExtras ==
    {<<97, At, 40, Dot, 98>>,               \* a@(.b
     <<97, At, 98, Dot, 40>>,               \* a@b.(
     <<97, At, 98, 40, Dot, 98>>,           \* a@b(.b
     <<97, At, 98, Dot, 98, 40>>,           \* a@b.b(
     <<At, 97, At, 98, Dot, 98>>,           \* @a@b.b
     <<At, At, 98, Dot, 98>>,               \* @@b.b
     <<At, 98, Dot, 98>>,                   \* @b.b
     <<97, Dot, At, 98, Dot, 98>>,          \* a.@b.b
     <<97, At, 98, Dot, 98, At, 98>>,       \* a@b.b@b
     <<97, At, 98, At, 98, Dot, 98>>,       \* a@b@b.b
     <<97, At, Dot, At, 98>>}               \* a@.@b

ScanInputs ==
    {Address(l, d) : l \in Words({<<97>>, <<Dot>>, <<40>>, U_UMLAUT}, MaxScan),
                     d \in Words({<<98>>, <<Dot>>, <<Hyphen>>, U_UMLAUT}, MaxScan)}
    \cup {Address(l, d) : l \in LongLocals, d \in LongDomains}
    \cup ScanExtras \cup FreeStrings

Inputs ==
    {Address(l, d) : l \in Locals, d \in CoreDomains}
    \cup {Address(l, d) : l \in CoreLocals, d \in Domains}
    \cup {Address(l, d) : l \in LongLocals, d \in LongDomains}
    \cup FreeStrings \cup Padded

(***************************************************************************)
(* The state machine: an address and a flag are drawn, and the entry       *)
(* points are applied to them.                                             *)
(***************************************************************************)

Init ==
    /\ email \in Inputs
    /\ allow_smtputf8 \in BOOLEAN
    /\ validated = None
    /\ revalidated = None
    /\ valid = None
    /\ ultra = None
    /\ detailed = None
    /\ emails = <<>>
    /\ results = None
    /\ adaptive = None
    /\ buckets = <<>>
    /\ threads = <<>>
    /\ log = <<>>

\* validate_email / pyval_core::validate
Validate ==
    /\ validated = None
    /\ validated' = Some(validate(email, allow_smtputf8))
    /\ UNCHANGED <<email, allow_smtputf8, revalidated, valid, ultra, detailed, emails, results,
                 adaptive, buckets, threads, log>>

\* validate applied again to the normalized form it returned
Revalidate ==
    /\ validated # None
    /\ validated.value.ok
    /\ revalidated = None
    /\ revalidated' = Some(validate(validated.value.normalized, allow_smtputf8))
    /\ UNCHANGED <<email, allow_smtputf8, validated, valid, ultra, detailed, emails, results,
                 adaptive, buckets, threads, log>>

\* is_valid of src/src/lib.rs
IsValid ==
    /\ valid = None
    /\ valid' = Some(is_valid_fast(email, allow_smtputf8))
    /\ UNCHANGED <<email, allow_smtputf8, validated, revalidated, ultra, detailed, emails, results,
                 adaptive, buckets, threads, log>>

\* is_valid_ultra of src/src/lib.rs, is_valid of pyval-core
IsValidUltra ==
    /\ ultra = None
    /\ ultra' = Some(validate_no_alloc(email))
    /\ UNCHANGED <<email, allow_smtputf8, validated, revalidated, valid, detailed, emails, results,
                 adaptive, buckets, threads, log>>

Next == Validate \/ Revalidate \/ IsValid \/ IsValidUltra

Spec == Init /\ [][Next]_vars

\* validate alone
ValidateNext == Validate

ValidateSpec == Init /\ [][ValidateNext]_vars

\* is_valid_detailed of src/src/lib.rs, the last tier of is_valid_fast
IsValidDetailed ==
    /\ detailed = None
    /\ detailed' = Some(is_valid_detailed(email, allow_smtputf8))
    /\ UNCHANGED <<email, allow_smtputf8, validated, revalidated, valid, ultra, emails, results,
                 adaptive, buckets, threads, log>>

\* The dispatcher, its last tier and the validator it stands for
TierNext == IsValid \/ IsValidDetailed \/ Validate

TierSpec == Init /\ [][TierNext]_vars

\* The scanner alone, on the scanner's addresses
ScanInit ==
    /\ email \in ScanInputs
    /\ allow_smtputf8 = TRUE
    /\ validated = None
    /\ revalidated = None
    /\ valid = None
    /\ ultra = None
    /\ detailed = None
    /\ emails = <<>>
    /\ results = None
    /\ adaptive = None
    /\ buckets = <<>>
    /\ threads = <<>>
    /\ log = <<>>

ScanNext == IsValidUltra

ScanSpec == ScanInit /\ [][ScanNext]_vars

(***************************************************************************)
(* prefetch.rs and lib.rs: batch validation                                *)
(***************************************************************************)

\* One round of the pipelined loop, i the 0-based index of the round: the
\* validation of emails[i] is started, the oldest pending result is stored
\* and the pending results rotate.
pipelined_round(es, st, i) ==
    [results |-> [st.results EXCEPT ![i - 1] = st.r1],
     r1 |-> st.r2,
     r2 |-> is_valid_fast(es[i + 1], TRUE)]

\* The two stores behind the loop
pipelined_drain(st, len) ==
    [[st.results EXCEPT ![len - 1] = st.r1] EXCEPT ![len] = st.r2]

\* pipelined_validation of src/src/prefetch.rs
pipelined_validation(es) ==
    IF Len(es) < 4 THEN [i \in 1..Len(es) |-> is_valid_fast(es[i], TRUE)]
    ELSE pipelined_drain(
             FoldRange(LAMBDA st, i : pipelined_round(es, st, i),
                       LAMBDA st : FALSE,
                       [results |-> [k \in 1..Len(es) |->
                                        IF k = 1 THEN is_valid_fast(es[1], TRUE) ELSE FALSE],
                        r1 |-> is_valid_fast(es[2], TRUE),
                        r2 |-> is_valid_fast(es[3], TRUE)],
                       3, Len(es) - 1),
             Len(es))

\* batch_is_valid of src/src/lib.rs
batch_is_valid(es, allow) ==
    IF Len(es) > 16 THEN pipelined_validation(es)
    ELSE [i \in 1..Len(es) |-> is_valid_fast(es[i], allow)]

\* Bound of the batch length
MaxBatch == 18

\* a@b.c   a@b   u-umlaut@b.c   .a@b.c   a@1.2
BatchPool == <<Address(<<97>>, <<98, Dot, 99>>),
               Address(<<97>>, <<98>>),
               Address(U_UMLAUT, <<98, Dot, 99>>),
               Address(<<Dot, 97>>, <<98, Dot, 99>>),
               Address(<<97>>, <<49, Dot, 50>>)>>

\* Batches of every length up to the bound, drawn from the pool in
\* different orders
Batches ==
    {[i \in 1..n |-> BatchPool[((o + i * step) % Len(BatchPool)) + 1]] :
        n \in 0..MaxBatch, o \in 0..(Len(BatchPool) - 1), step \in 1..2}

BatchInit ==
    /\ emails \in Batches
    /\ allow_smtputf8 \in BOOLEAN
    /\ email = <<>>
    /\ validated = None
    /\ revalidated = None
    /\ valid = None
    /\ ultra = None
    /\ detailed = None
    /\ results = None
    /\ adaptive = None
    /\ buckets = <<>>
    /\ threads = <<>>
    /\ log = <<>>

\* batch_is_valid of src/src/lib.rs
BatchIsValid ==
    /\ results = None
    /\ results' = Some(batch_is_valid(emails, allow_smtputf8))
    /\ UNCHANGED <<email, allow_smtputf8, validated, revalidated, valid, ultra, detailed, emails,
                 adaptive, buckets, threads, log>>

BatchNext == BatchIsValid

BatchSpec == BatchInit /\ [][BatchNext]_vars

(***************************************************************************)
(* u64 / usize arithmetic: a value is its four 16-bit limbs, the least     *)
(* significant first.                                                      *)
(***************************************************************************)

Limb == 65536

\* Limb sums or products brought back to limbs; over tells that the value
\* did not fit in 64 bits.
carry(x) ==
    LET s1 == x[2] + (x[1] \div Limb)
        s2 == x[3] + (s1 \div Limb)
        s3 == x[4] + (s2 \div Limb)
    IN [v |-> <<x[1] % Limb, s1 % Limb, s2 % Limb, s3 % Limb>>, over |-> s3 >= Limb]

\* a + b, with the overflow a build with overflow checks panics on
overflowing_add(a, b) == carry(<<a[1] + b[1], a[2] + b[2], a[3] + b[3], a[4] + b[4]>>)

wrapping_add(a, b) == overflowing_add(a, b).v

\* a - b, with the overflow (a < b)
overflowing_sub(a, b) ==
    LET d1 == a[1] - b[1]
        d2 == a[2] - b[2] - (IF d1 < 0 THEN 1 ELSE 0)
        d3 == a[3] - b[3] - (IF d2 < 0 THEN 1 ELSE 0)
        d4 == a[4] - b[4] - (IF d3 < 0 THEN 1 ELSE 0)
    IN [v |-> <<d1 % Limb, d2 % Limb, d3 % Limb, d4 % Limb>>, over |-> d4 < 0]

\* a << n for n < 64: the bits shifted out are dropped
shl(a, n) ==
    LET q == n \div 16
        m == 2 ^ (n % 16)
    IN carry([i \in 1..4 |-> IF i - q >= 1 THEN a[i - q] * m ELSE 0]).v

\* a >> 1
shr1(a) == [i \in 1..4 |-> (a[i] \div 2) + (IF i < 4 THEN (a[i + 1] % 2) * 32768 ELSE 0)]

\* x ^ y on the n low bits
RECURSIVE xor_bits(_, _, _)
xor_bits(x, y, n) ==
    IF n = 0 THEN 0
    ELSE (((x % 2) + (y % 2)) % 2) + 2 * xor_bits(x \div 2, y \div 2, n - 1)

\* a ^ (byte as u64)
xor_byte(a, b) == [a EXCEPT ![1] = xor_bits(a[1], b, 16)]

\* a.wrapping_mul(0x100000001b3): 0x100000001b3 = 2^40 + 435
wrapping_mul_fnv_prime(a) ==
    wrapping_add(shl(a, 40), carry(<<a[1] * 435, a[2] * 435, a[3] * 435, a[4] * 435>>).v)

\* FNV-1a: 0xcbf29ce484222325, then h ^= b; h *= 0x100000001b3 for each byte
fnv1a(s) ==
    FoldRange(LAMBDA h, i : wrapping_mul_fnv_prime(xor_byte(h, s[i])), LAMBDA h : h[1] < 0,
              <<8997, 33826, 40164, 52210>>, 1, Len(s))

(***************************************************************************)
(* approximate.rs: the filter, the scorer and the adaptive validator       *)
(***************************************************************************)

\* EmailFilter::hash1 (DJB2)
hash1(s) ==
    FoldRange(LAMBDA h, i : wrapping_add(wrapping_add(shl(h, 5), h), <<s[i], 0, 0, 0>>),
              LAMBDA h : h[1] < 0, <<5381, 0, 0, 0>>, 1, Len(s))

\* One round of EmailFilter::hash2 (SDBM), b + (h << 6) + (h << 16) - h, in
\* unchecked arithmetic: v is the wrapped value, over tells that a sum or the
\* difference overflowed.
hash2_round(st, b) ==
    LET s1 == overflowing_add(<<b, 0, 0, 0>>, shl(st.v, 6))
        s2 == overflowing_add(s1.v, shl(st.v, 16))
        s3 == overflowing_sub(s2.v, st.v)
    IN [v |-> s3.v, over |-> st.over \/ s1.over \/ s2.over \/ s3.over]

hash2(s) ==
    FoldRange(LAMBDA st, i : hash2_round(st, s[i]), LAMBDA st : st.v[1] < 0,
              [v |-> <<0, 0, 0, 0>>, over |-> FALSE], 1, Len(s))

\* EmailFilter::hash3 (FNV-1a)
hash3(s) == fnv1a(s)

\* The three bits of a string: h % 2048 for each hash
filter_bits(s) == {hash1(s)[1] % 2048, hash2(s).v[1] % 2048, hash3(s)[1] % 2048}

\* The patterns AdaptiveValidator::new adds to its filter: gmail.com,
\* yahoo.com, hotmail.com, outlook.com, icloud.com, protonmail.com, aol.com,
\* live.com
patterns ==
    {
     <<103, 109, 97, 105, 108, 46, 99, 111, 109>>,
     <<121, 97, 104, 111, 111, 46, 99, 111, 109>>,
     <<104, 111, 116, 109, 97, 105, 108, 46, 99, 111, 109>>,
     <<111, 117, 116, 108, 111, 111, 107, 46, 99, 111, 109>>,
     <<105, 99, 108, 111, 117, 100, 46, 99, 111, 109>>,
     <<112, 114, 111, 116, 111, 110, 109, 97, 105, 108, 46, 99, 111, 109>>,
     <<97, 111, 108, 46, 99, 111, 109>>,
     <<108, 105, 118, 101, 46, 99, 111, 109>>
    }

\* AdaptiveValidator::new: the set bits of the filter.  In a build with
\* overflow checks hash2 panics when its arithmetic overflows; in any other
\* build the arithmetic wraps.
AdaptiveValidator_new(overflow_checks) ==
    IF overflow_checks /\ \E pattern \in patterns : hash2(pattern).over
    THEN Panic
    ELSE OkValue(UNION {filter_bits(pattern) : pattern \in patterns})

\* EmailFilter::might_be_valid
might_be_valid(bits, e) == filter_bits(e) \subseteq bits

\* NeuralValidator::score with the weights of NeuralValidator::new
weights == <<10, 20, -50, 15, -100, 5, 8, -30>>

count(bytes, P(_)) == Cardinality({i \in 1..Len(bytes) : P(bytes[i])})

score(bytes) ==
    IF Len(bytes) < 3 \/ Len(bytes) > 254 THEN -1000
    ELSE LET features ==
               <<Len(bytes),
                 count(bytes, LAMBDA b : b = At),
                 count(bytes, LAMBDA b : b = Dot),
                 IF is_ascii_alphabetic(bytes[1]) THEN 1 ELSE 0,
                 count(bytes, is_ascii_uppercase),
                 count(bytes, is_ascii_digit),
                 IF bytes[1] # Dot /\ bytes[Len(bytes)] # Dot THEN 1 ELSE 0,
                 Cardinality({i \in 1..(Len(bytes) - 1) :
                                 bytes[i] = Dot /\ bytes[i + 1] = Dot})>>
         IN features[1] * weights[1] + features[2] * weights[2]
            + features[3] * weights[3] + features[4] * weights[4]
            + features[5] * weights[5] + features[6] * weights[6]
            + features[7] * weights[7] + features[8] * weights[8]

\* NeuralValidator::quick_check: (definitely_invalid, probably_valid)
quick_check(sc) ==
    IF sc < -200 THEN <<TRUE, FALSE>>
    ELSE IF sc > 50 THEN <<FALSE, TRUE>>
    ELSE <<FALSE, FALSE>>

\* AdaptiveValidator::validate behind the filter: the scorer, then the full
\* validation
adaptive_neural(e, check) ==
    IF check[1] THEN <<FALSE, "Neural">>
    ELSE IF check[2] THEN <<TRUE, "Neural">>
    ELSE <<is_valid_fast(e, TRUE), "Full">>

\* AdaptiveValidator::validate
adaptive_validate(bits, e) ==
    IF ~might_be_valid(bits, e) THEN <<FALSE, "Filter">>
    ELSE adaptive_neural(e, quick_check(score(e)))

\* The addresses given to the adaptive validator: the patterns of the
\* filter, addresses that are not in the filter, and addresses that are
\* (found by search).
AdaptiveInputs ==
    patterns \cup
    {
     <<97, 64, 98, 46, 99>>,   \* a@b.c
     <<117, 115, 101, 114, 64, 103, 109, 97, 105, 108, 46, 99, 111, 109>>,   \* user@gmail.com
     <<97, 64, 98>>,   \* a@b
     <<97, 46, 46, 98, 64, 98, 46, 99>>,   \* a..b@b.c
     <<114, 120, 116, 56, 64, 49, 46, 50>>,   \* rxt8@1.2
     <<101, 109, 51, 121, 64, 103, 109, 97, 105, 108, 46, 99, 111, 109>>,   \* em3y@gmail.com
     <<48, 109, 112, 109, 64, 98, 46, 99>>,   \* 0mpm@b.c
     <<102, 114, 100, 64, 98, 46, 99, 46>>,   \* frd@b.c.
     <<120, 120, 110, 105, 64, 66, 46, 67>>,   \* xxni@B.C
     <<85, 86, 67, 90, 64, 98, 46, 99>>,   \* UVCZ@b.c
     <<80, 76, 72, 82, 64, 103, 109, 97, 105, 108, 46, 99, 111, 109>>,   \* PLHR@gmail.com
     <<56, 112, 64, 98, 46, 99, 46>>,   \* 8p@b.c.
     <<122, 110, 118, 108, 64, 49, 46, 50>>,   \* znvl@1.2
     <<78, 70, 67, 83, 64, 66, 46, 67>>   \* NFCS@B.C
    }

AdaptiveInit ==
    /\ email \in AdaptiveInputs
    /\ allow_smtputf8 = TRUE
    /\ validated = None
    /\ revalidated = None
    /\ valid = None
    /\ ultra = None
    /\ detailed = None
    /\ emails = <<>>
    /\ results = None
    /\ adaptive = [validator |-> None, result |-> None]
    /\ buckets = <<>>
    /\ threads = <<>>
    /\ log = <<>>

\* AdaptiveValidator::new, in a build with or without overflow checks
AdaptiveNew ==
    /\ adaptive.validator = None
    /\ \E overflow_checks \in BOOLEAN :
          adaptive' = [adaptive EXCEPT !.validator = Some(AdaptiveValidator_new(overflow_checks))]
    /\ UNCHANGED <<email, allow_smtputf8, validated, revalidated, valid, ultra, detailed,
                   emails, results, buckets, threads, log>>

\* AdaptiveValidator::validate on a validator that was constructed
AdaptiveValidate ==
    /\ adaptive.validator.some
    /\ adaptive.validator.value.ok
    /\ adaptive.result = None
    /\ adaptive' = [adaptive EXCEPT
                      !.result = Some(adaptive_validate(adaptive.validator.value.value, email))]
    /\ UNCHANGED <<email, allow_smtputf8, validated, revalidated, valid, ultra, detailed,
                   emails, results, buckets, threads, log>>

AdaptiveNext == AdaptiveNew \/ AdaptiveValidate \/ Validate

AdaptiveSpec == AdaptiveInit /\ [][AdaptiveNext]_vars

(***************************************************************************)
(* prefetch.rs: ValidationCache, shared by threads.  Each load and each    *)
(* compare-exchange of a bucket is one atomic step.                        *)
(***************************************************************************)

\* Bounds: the size given to ValidationCache::new, the threads, and the
\* calls each thread makes
CacheSize == 2
NumThreads == 2
MaxCalls == 2

Threads == 1..NumThreads

\* a@b.c (hash 0x92cc491485c90b75) and c@b.c (hash 0x372ca33bddb0818f)
CacheEmails == {<<97, At, 98, Dot, 99>>, <<99, At, 98, Dot, 99>>}

Zero == <<0, 0, 0, 0>>

RECURSIVE next_power_of_two(_)
next_power_of_two(n) == IF n <= 1 THEN 1 ELSE 2 * next_power_of_two((n + 1) \div 2)

\* ValidationCache::new
ValidationCache_new(size) == [i \in 0..(next_power_of_two(size) - 1) |-> Zero]

\* ValidationCache::hash
hash(e) == fnv1a(e)

\* The hash of each email of the model
hashes == [e \in CacheEmails |-> hash(e)]

\* (hash & mask) as usize, for a table of n buckets (n a power of two)
first_idx(h, n) == h[1] % n

\* (idx + 1) & mask
next_idx(idx, n) == (idx + 1) % n

\* (hash << 1) | (result as u64)
bucket_value(h, result) == [shl(h, 1) EXCEPT ![1] = @ + (IF result THEN 1 ELSE 0)]

\* The buckets the 8 rounds of a call visit
probe_slots(h, n) == {(first_idx(h, n) + k) % n : k \in 0..7}

Idle(calls, op, e, ret, seen) ==
    [pc |-> "idle", calls |-> calls, op |-> op, email |-> e, result |-> FALSE,
     hash |-> Zero, idx |-> 0, round |-> 0, free |-> FALSE, ret |-> ret, seen |-> seen]

CacheInit ==
    /\ buckets = ValidationCache_new(CacheSize)
    /\ threads = [t \in Threads |-> Idle(0, "none", <<>>, None, {})]
    /\ log = [stored |-> {}, returned |-> {}]
    /\ email = <<>>
    /\ allow_smtputf8 = TRUE
    /\ validated = None
    /\ revalidated = None
    /\ valid = None
    /\ ultra = None
    /\ detailed = None
    /\ emails = <<>>
    /\ results = None
    /\ adaptive = None

\* A thread calls insert(e, result): hash, mask, idx and value are computed
CallInsert(t) ==
    /\ threads[t].pc = "idle"
    /\ threads[t].calls < MaxCalls
    /\ \E e \in CacheEmails, result \in BOOLEAN :
          LET h == hashes[e]
              n == Cardinality(DOMAIN buckets)
          IN /\ threads' = [threads EXCEPT ![t] =
                    [pc |-> "insert_load", calls |-> @.calls + 1, op |-> "insert",
                     email |-> e, result |-> result, hash |-> h,
                     idx |-> first_idx(h, n), round |-> 0,
                     free |-> \E i \in probe_slots(h, n) : buckets[i] = Zero,
                     ret |-> None, seen |-> {}]]
             /\ log' = [log EXCEPT !.stored = @ \cup {<<h, result>>}]
    /\ UNCHANGED <<email, allow_smtputf8, validated, revalidated, valid, ultra, detailed,
                   emails, results, adaptive, buckets>>

\* The end of one round of insert's loop without a store: the next bucket,
\* or the return after the eighth round
insert_next_round(th, n) ==
    IF th.round + 1 = 8
    THEN Idle(th.calls, "insert", th.email, None, {})
    ELSE [th EXCEPT !.pc = "insert_load", !.idx = next_idx(th.idx, n), !.round = @ + 1]

\* The return of insert: the call is logged if one of its 8 buckets was free
\* when it was made
insert_returned(th) ==
    IF th.free THEN [log EXCEPT !.returned = @ \cup {<<th.email, th.result>>}] ELSE log

\* insert: existing = buckets[idx].load(Relaxed)
InsertLoad(t) ==
    LET th == threads[t]
        n == Cardinality(DOMAIN buckets)
    IN /\ th.pc = "insert_load"
       /\ IF buckets[th.idx] = Zero
          THEN /\ threads' = [threads EXCEPT ![t].pc = "insert_cas"]
               /\ log' = log
          ELSE /\ threads' = [threads EXCEPT ![t] = insert_next_round(th, n)]
               /\ log' = IF th.round + 1 = 8 THEN insert_returned(th) ELSE log
       /\ UNCHANGED <<email, allow_smtputf8, validated, revalidated, valid, ultra, detailed,
                      emails, results, adaptive, buckets>>

\* insert: buckets[idx].compare_exchange_weak(0, value, Relaxed, Relaxed); the
\* weak exchange may fail although the bucket is 0
InsertCas(t) ==
    LET th == threads[t]
        n == Cardinality(DOMAIN buckets)
    IN /\ th.pc = "insert_cas"
       /\ \E spurious \in BOOLEAN :
             IF buckets[th.idx] = Zero /\ ~spurious
             THEN /\ buckets' = [buckets EXCEPT ![th.idx] = bucket_value(th.hash, th.result)]
                  /\ threads' = [threads EXCEPT ![t] = Idle(th.calls, "insert", th.email, None, {})]
                  /\ log' = insert_returned(th)
             ELSE /\ buckets' = buckets
                  /\ threads' = [threads EXCEPT ![t] = insert_next_round(th, n)]
                  /\ log' = IF th.round + 1 = 8 THEN insert_returned(th) ELSE log
       /\ UNCHANGED <<email, allow_smtputf8, validated, revalidated, valid, ultra, detailed,
                      emails, results, adaptive>>

\* A thread calls check(e); seen are the inserts that have returned by then
CallCheck(t) ==
    /\ threads[t].pc = "idle"
    /\ threads[t].calls < MaxCalls
    /\ \E e \in CacheEmails :
          LET h == hashes[e]
              n == Cardinality(DOMAIN buckets)
          IN threads' = [threads EXCEPT ![t] =
                [pc |-> "check_load", calls |-> @.calls + 1, op |-> "check",
                 email |-> e, result |-> FALSE, hash |-> h,
                 idx |-> first_idx(h, n), round |-> 0, free |-> FALSE,
                 ret |-> None, seen |-> log.returned]]
    /\ UNCHANGED <<email, allow_smtputf8, validated, revalidated, valid, ultra, detailed,
                   emails, results, adaptive, buckets, log>>

\* One round of check's loop on the loaded bucket
check_round(th, bucket, n) ==
    IF bucket = Zero
    THEN Idle(th.calls, "check", th.email, Some(None), th.seen)
    ELSE IF shr1(bucket) = th.hash
    THEN Idle(th.calls, "check", th.email, Some(Some(bucket[1] % 2 = 1)), th.seen)
    ELSE IF th.round + 1 = 8
    THEN Idle(th.calls, "check", th.email, Some(None), th.seen)
    ELSE [th EXCEPT !.idx = next_idx(th.idx, n), !.round = @ + 1]

\* check: bucket = buckets[idx].load(Relaxed) and the tests on it
CheckLoad(t) ==
    /\ threads[t].pc = "check_load"
    /\ threads' = [threads EXCEPT ![t] =
                      check_round(threads[t], buckets[threads[t].idx], Cardinality(DOMAIN buckets))]
    /\ UNCHANGED <<email, allow_smtputf8, validated, revalidated, valid, ultra, detailed,
                   emails, results, adaptive, buckets, log>>

CacheNext ==
    \E t \in Threads :
        CallInsert(t) \/ InsertLoad(t) \/ InsertCas(t) \/ CallCheck(t) \/ CheckLoad(t)

CacheSpec == CacheInit /\ [][CacheNext]_vars

(***************************************************************************)
(* The address under validation as validate splits it                      *)
(***************************************************************************)

Trimmed == trim(email)
Ats == at_positions(Trimmed)
OneAt == Cardinality(Ats) = 1
\* The text before and after the first '@'
Local == SubSeq(Trimmed, 1, Min(Ats) - 1)
Domain == SubSeq(Trimmed, Min(Ats) + 1, Len(Trimmed))
Bracketed(d) == d # <<>> /\ d[1] = LBracket /\ d[Len(d)] = RBracket
NonAscii(s) == \E i \in 1..Len(s) : s[i] >= 128
Lowercased(s) == [i \in 1..Len(s) |-> IF s[i] \in 65..90 THEN s[i] + 32 ELSE s[i]]
Accepted == validated.some /\ validated.value.ok
Rejected_with(kind) == validated.some /\ validated.value = Err(kind)

\* The first byte of the local part at which the single pass of the local
\* part finds a violation: a dot that follows a dot, or a byte that is
\* neither a dot, nor atext, nor (with the flag) a byte of a UTF-8 sequence.
Offends(l, i) ==
    IF l[i] = Dot THEN i > 1 /\ l[i - 1] = Dot
    ELSE ~(\/ is_ascii_alphanumeric(l[i])
           \/ l[i] \in atext_punct
           \/ (l[i] >= 128 /\ allow_smtputf8))
Offences(l) == {i \in 1..Len(l) : Offends(l, i)}
OffenceKind(l) == IF l[Min(Offences(l))] = Dot THEN "ConsecutiveDots" ELSE "InvalidCharacter"

(***************************************************************************)
(* The claims                                                              *)
(***************************************************************************)

\* C1: is_valid (the tiered dispatcher is_valid_fast) returns true exactly
\* when validate returns Ok, for every input and either value of the flag.
C1_TierAgreement ==
    (valid.some /\ validated.some) => (valid.value <=> validated.value.ok)

\* C2: every string the zero-copy scanner validate_no_alloc accepts is
\* accepted by validate.
C2_ScannerSubset ==
    (ultra.some /\ ultra.value /\ validated.some) => validated.value.ok

\* C3: normalization is idempotent: validating the normalized form of an
\* accepted address succeeds and returns the same normalized form, bracketed
\* IPv4 and IPv6 literals included.
C3_IdempotentNormalization ==
    (Accepted /\ revalidated.some) =>
        /\ revalidated.value.ok
        /\ revalidated.value.normalized = validated.value.normalized

\* C4: normalized is the local part (untouched when ASCII, NFC-composed
\* otherwise, its case never changed), '@', and the lowercased ascii_domain;
\* ascii_domain is what the ASCII mapping produced, not lowercased afterwards.
C4_NormalizedForm ==
    Accepted =>
        LET l == Local
            d == Domain
            v == validated.value
        IN /\ v.local_part = l
           /\ v.ascii_domain = (IF Bracketed(d) THEN d ELSE domain_to_ascii(d).value)
           /\ v.normalized = (IF NonAscii(l) THEN nfc(l) ELSE l)
                             \o <<At>> \o Lowercased(v.ascii_domain)

\* An accepted address with capitals in the local part and in ascii_domain
C4_Witness ==
    /\ Accepted
    /\ LET l == Local
           a == validated.value.ascii_domain
       IN /\ \E i \in 1..Len(l) : is_ascii_uppercase(l[i])
          /\ \E i \in 1..Len(a) : is_ascii_uppercase(a[i])

\* C5: smtputf8 is true exactly when local_part has a non-ASCII byte; a
\* non-ASCII domain with an ASCII local part gives smtputf8 = FALSE.
C5_Smtputf8 ==
    Accepted =>
        LET l == Local
        IN /\ validated.value.local_part = l
           /\ validated.value.smtputf8 <=> NonAscii(l)

\* An accepted address with an ASCII local part and a non-ASCII domain
C5_Witness ==
    /\ Accepted
    /\ ~NonAscii(Local)
    /\ NonAscii(Domain)
    /\ ~validated.value.smtputf8

\* C6 as stated: a violation that the pass over the local part meets before
\* the last byte of the local part is the one reported, whatever follows it
\* (a second '@', a trailing dot, a violation of the domain).
C6_FirstViolationLeftToRight ==
    (validated.some /\ Ats # {}) =>
        LET l == Local
            bad == Offences(l)
        IN (/\ l # <<>>
            /\ Len(l) <= 64
            /\ l[1] # Dot
            /\ bad # {}
            /\ Min(bad) < Len(l))
           => validated.value = Err(OffenceKind(l))

\* C6 amended: with exactly one '@' and no dot at the end of the local part,
\* the first violation the pass over the local part meets is the one
\* reported; and no error of the domain is reported in place of an error of
\* the local part.
C6_FirstViolationInCheckOrder ==
    (validated.some /\ OneAt) =>
        LET l == Local
            local_result == validate_local_part(l, allow_smtputf8)
        IN /\ (/\ l # <<>>
               /\ Len(l) <= 64
               /\ l[1] # Dot
               /\ l[Len(l)] # Dot
               /\ Offences(l) # {})
              => validated.value = Err(OffenceKind(l))
           /\ ~local_result.ok => validated.value = local_result

\* Consecutive dots in the local part in front of an illegal byte, and a
\* domain that is rejected too
C6_Witness ==
    /\ OneAt
    /\ Rejected_with("ConsecutiveDots")
    /\ LET l == Local
       IN /\ Len(l) \in 3..64
          /\ l[1] # Dot
          /\ l[Len(l)] # Dot
          /\ Cardinality(Offences(l)) >= 2
    /\ ~validate_domain(Domain).ok

\* C7: a non-empty trimmed input without '@' gives MissingAt, one with two
\* or more '@' gives MultipleAt, whatever else it contains; the parts are
\* validated only when there is exactly one '@'.
C7_AtSignRules ==
    validated.some =>
        LET e == Trimmed
            ats == at_positions(e)
        IN e # <<>> =>
              /\ ats = {} => validated.value = Err("MissingAt")
              /\ Cardinality(ats) >= 2 => validated.value = Err("MultipleAt")
              /\ validated.value.ok => Cardinality(ats) = 1

\* Two '@' behind a leading dot
C7_Witness ==
    /\ Rejected_with("MultipleAt")
    /\ Cardinality(Ats) >= 2
    /\ Trimmed[1] = Dot

\* C8: a local part of 64 bytes is accepted when the address is otherwise
\* legal; with exactly one '@', a local part of 65 bytes or more gives
\* LocalPartTooLong, before the dot and character checks.
C8_LocalPartLength ==
    (validated.some /\ OneAt) =>
        LET l == Local
        IN /\ Len(l) >= 65 => validated.value = Err("LocalPartTooLong")
           /\ (/\ Len(l) = 64
               /\ \A i \in 1..Len(l) : is_ascii_alphanumeric(l[i])
               /\ validate_domain(Domain).ok)
              => validated.value.ok

\* A local part of more than 64 bytes that starts with a dot
C8_Witness ==
    /\ OneAt
    /\ Rejected_with("LocalPartTooLong")
    /\ LET l == Local IN Len(l) >= 65 /\ l[1] = Dot

\* C9: the length limit of a non-bracketed domain applies to its ASCII form:
\* 253 bytes are accepted when the address is otherwise legal, 254 bytes or
\* more give DomainTooLong.
C9_DomainLengthOfAsciiForm ==
    (validated.some /\ OneAt) =>
        LET d == Domain
            mapped == domain_to_ascii(d)
        IN (/\ validate_local_part(Local, allow_smtputf8).ok
            /\ d # <<>>
            /\ ~Bracketed(d)
            /\ mapped.ok)
           => /\ Len(mapped.value) >= 254 => validated.value = Err("DomainTooLong")
              /\ (Len(mapped.value) = 253 /\ validate_mapped(mapped).ok)
                 => validated.value.ok

\* C10: with a legal local part, an unbracketed domain (within the length
\* limit) whose labels are all decimal digits gives InvalidDomain, and a
\* dotted quad in brackets is accepted.
C10_AllNumericDomain ==
    (validated.some /\ OneAt) =>
        LET d == Domain
        IN validate_local_part(Local, allow_smtputf8).ok =>
              /\ (/\ d # <<>>
                  /\ Len(d) <= 253
                  /\ \A i \in 1..Len(d) : is_ascii_digit(d[i]) \/ d[i] = Dot)
                 => validated.value = Err("InvalidDomain")
              /\ (Bracketed(d) /\ parse_ipv4(SubSeq(d, 2, Len(d) - 1)))
                 => /\ validated.value.ok
                    /\ validated.value.ascii_domain = d

\* The dotted quad 1.2.3.4 without brackets
C10_Witness ==
    /\ OneAt
    /\ Rejected_with("InvalidDomain")
    /\ Domain = <<49, Dot, 50, Dot, 51, Dot, 52>>

\* C11: a domain of the form [inner] is decided by the IP parsers alone:
\* behind the exact tag "IPv6:" the rest must parse as an IPv6 address,
\* otherwise inner must parse as an IPv4 address; failure gives InvalidDomain,
\* success returns the literal unchanged, with no length, dot or label check.
C11_IpLiteralAlone ==
    (validated.some /\ OneAt) =>
        LET d == Domain
            inner == SubSeq(d, 2, Len(d) - 1)
            parses == IF starts_with(inner, IPv6Prefix)
                      THEN parse_ipv6(SubSeq(inner, Len(IPv6Prefix) + 1, Len(inner)))
                      ELSE parse_ipv4(inner)
        IN (Bracketed(d) /\ validate_local_part(Local, allow_smtputf8).ok) =>
              IF parses
              THEN validated.value.ok /\ validated.value.ascii_domain = d
              ELSE validated.value = Err("InvalidDomain")

\* An accepted IPv6 literal, which has no dot
C11_Witness ==
    /\ Accepted
    /\ LET d == Domain
       IN /\ Bracketed(d)
          /\ starts_with(SubSeq(d, 2, Len(d) - 1), IPv6Prefix)
          /\ ~contains(d, Dot)

\* C12: the domain that validate_domain returns is non-empty, at most 253
\* bytes, ASCII, has a dot, is not made of all-digit labels only, and each of
\* its labels is non-empty, at most 63 bytes, without a hyphen at either end
\* and made of ASCII letters, digits and hyphens.
C12_DomainGuarantee ==
    Accepted =>
        LET a == validated.value.ascii_domain
            labels == split(a, Dot)
        IN /\ a # <<>>
           /\ Len(a) <= 253
           /\ ~NonAscii(a)
           /\ contains(a, Dot)
           /\ \E k \in 1..Len(labels) :
                 \E i \in 1..Len(labels[k]) : ~is_ascii_digit(labels[k][i])
           /\ \A k \in 1..Len(labels) :
                 /\ labels[k] # <<>>
                 /\ Len(labels[k]) <= 63
                 /\ labels[k][1] # Hyphen
                 /\ labels[k][Len(labels[k])] # Hyphen
                 /\ \A i \in 1..Len(labels[k]) :
                       is_ascii_alphanumeric(labels[k][i]) \/ labels[k][i] = Hyphen

\* C13: a local part that validate_local_part accepts is non-empty, at most
\* 64 bytes, has no leading, trailing or consecutive dots, and each of its
\* other bytes is ASCII atext or, only with the flag, part of a non-ASCII
\* character that is not a control, not U+200B..U+200D and not U+FEFF.
C13_LocalPartGuarantee ==
    Accepted =>
        LET l == Local
            cs == chars(l)
        IN /\ l # <<>>
           /\ Len(l) <= 64
           /\ l[1] # Dot
           /\ l[Len(l)] # Dot
           /\ \A i \in 1..(Len(l) - 1) : ~(l[i] = Dot /\ l[i + 1] = Dot)
           /\ \A i \in 1..Len(l) :
                 l[i] < 128 => \/ l[i] = Dot
                               \/ is_ascii_alphanumeric(l[i])
                               \/ l[i] \in atext_punct
           /\ NonAscii(l) => allow_smtputf8
           /\ \A k \in 1..Len(cs) :
                 cs[k] > 127 => /\ cs[k] \notin 128..159
                                /\ cs[k] \notin 8203..8205
                                /\ cs[k] # 65279

\* An accepted local part with a non-ASCII character
C13_Witness ==
    /\ Accepted
    /\ allow_smtputf8
    /\ NonAscii(Local)

\* A local part that is legal but for its non-ASCII characters, none of which
\* is a control, a zero-width character or the byte-order mark
SafeUnicodeLocal(l) ==
    /\ l # <<>>
    /\ Len(l) <= 64
    /\ l[1] # Dot
    /\ l[Len(l)] # Dot
    /\ \A i \in 1..(Len(l) - 1) : ~(l[i] = Dot /\ l[i + 1] = Dot)
    /\ \A i \in 1..Len(l) :
          l[i] < 128 => l[i] = Dot \/ is_ascii_alphanumeric(l[i]) \/ l[i] \in atext_punct
    /\ NonAscii(l)
    /\ \A c \in {chars(l)[k] : k \in 1..Len(chars(l))} :
          c > 127 => c \notin 128..159 /\ c \notin 8203..8205 /\ c # 65279

C15_BatchElementwise ==
    results.some =>
        /\ Len(results.value) = Len(emails)
        /\ \A i \in 1..Len(emails) :
              results.value[i] = is_valid_fast(emails[i], allow_smtputf8)

\* C16: validate never panics: every call ends with Ok or with one variant
\* of EmailError; the split at the '@', the first and last byte of the local
\* part and the stripping of the brackets are within bounds for every input.
C16_NoPanic ==
    validated.some => (validated.value.ok \/ validated.value.err \in EmailError)

\* The shortest bracketed domain, whose inner slice is empty
C16_Witness ==
    /\ OneAt
    /\ Domain = <<LBracket, RBracket>>
    /\ Rejected_with("InvalidDomain")

\* C17 as stated: on success local_part and domain are non-empty, have no
\* '@', and local_part, '@' and domain make up the raw input exactly.
C17_SplitReconstructsRaw ==
    Accepted =>
        /\ validated.value.local_part # <<>>
        /\ validated.value.domain # <<>>
        /\ ~contains(validated.value.local_part, At)
        /\ ~contains(validated.value.domain, At)
        /\ validated.value.local_part \o <<At>> \o validated.value.domain = email

\* C17 amended: on success local_part and domain are non-empty, have no '@',
\* and local_part, '@' and domain make up the input without its surrounding
\* whitespace, which is the field original.
C17_SplitReconstructsTrimmed ==
    Accepted =>
        LET v == validated.value
        IN /\ v.local_part # <<>>
           /\ v.domain # <<>>
           /\ ~contains(v.local_part, At)
           /\ ~contains(v.domain, At)
           /\ v.local_part \o <<At>> \o v.domain = Trimmed
           /\ v.original = Trimmed

\* An accepted address that was given with surrounding whitespace
C17_Witness ==
    /\ Accepted
    /\ email # Trimmed

\* C18: validate rejects every address of more than 254 bytes after
\* trimming, so the length pre-screen of the dispatcher rejects no address
\* that validate accepts.
C18_TotalLengthBound ==
    Accepted => Len(Trimmed) <= 254

\* C19: the dispatcher returns the first definite answer of its tiers, the
\* SIMD check for 32 bytes and more, then the ASCII fast check, and when every
\* tier tried answers "unknown" it returns the result of the detailed
\* validation of the same input and flag.
C19_UnknownEscalates ==
    valid.some =>
        LET simd == validate_email_fast(email)
            fast == fast_ascii_email_check(email)
        IN IF Len(email) >= 32 /\ simd.some THEN valid.value = simd.value
           ELSE IF fast.some THEN valid.value = fast.value
           ELSE detailed.some => valid.value = detailed.value

\* An input of 32 bytes or more on which both fast tiers answer "unknown"
\* and the detailed validation accepts
C19_Witness ==
    /\ valid.some
    /\ detailed.some
    /\ Len(email) >= 32
    /\ ~validate_email_fast(email).some
    /\ ~fast_ascii_email_check(email).some
    /\ valid.value

\* C20: is_valid_detailed returns true exactly when validate returns Ok,
\* bracketed IP literals and local parts with control, zero-width or BOM
\* characters included.
C20_DetailedIsValidate ==
    (detailed.some /\ validated.some) => (detailed.value <=> validated.value.ok)

(***************************************************************************)
(* The scanner's automaton, run over a whole string whatever its length    *)
(***************************************************************************)

ScanStart == [state |-> "LocalStart", at_count |-> 0, dot_count |-> 0, rejected |-> FALSE]
Automaton(e) == scan(e, ScanStart)

\* C21: the scanner rejects every well-formed UTF-8 input that has a byte
\* >= 128, wherever the non-ASCII character stands: at the start of the local
\* part, after a dot, at the start of the domain or of a label, or elsewhere.
C21_ScannerRejectsNonAscii ==
    (ultra.some /\ NonAscii(email)) => ~ultra.value

\* C21 witness: a rejected address whose non-ASCII character stands right
\* after the '@', its first byte taken by DomainStart without a rejection.
C21_Witness ==
    /\ ultra.some /\ ~ultra.value
    /\ \E i \in 2..Len(email) :
         /\ email[i - 1] = At /\ email[i] >= 128
         /\ LET st == Automaton(SubSeq(email, 1, i))
            IN ~st.rejected /\ st.state = "Domain"

\* C22: the start-of-run states follow the transition table, so an accepted
\* string has only atext bytes and single dots before the '@' and only
\* letters, digits, hyphens and single dots after it.
C22_StartStatesFollowTable ==
    (ultra.some /\ ultra.value) =>
        LET e == email
            at == Min(at_positions(e))
        IN /\ \A i \in 1..(at - 1) : e[i] = Dot \/ is_local_char(e[i])
           /\ \A i \in (at + 1)..Len(e) : e[i] = Dot \/ is_domain_char(e[i])
           /\ \A i \in 2..Len(e) : ~(e[i] = Dot /\ e[i - 1] = Dot)

\* The properties every accepted string has by C23
ScanAcceptedShape(e) ==
    LET ats == at_positions(e)
        at == Min(ats)
    IN /\ Cardinality(ats) = 1
       /\ at > 1
       /\ e[1] # At /\ e[1] # Dot
       /\ \E i \in (at + 1)..Len(e) : e[i] = Dot
       /\ e[Len(e)] # Dot /\ e[Len(e)] # At

C24_LocalCheckOrder ==
    (validated.some /\ OneAt) =>
        LET l == Local
            r == validated.value
        IN /\ IF l = <<>> THEN r = Err("Empty")
              ELSE IF Len(l) > 64 THEN r = Err("LocalPartTooLong")
              ELSE IF l[1] = Dot THEN r = Err("LeadingDot")
              ELSE IF l[Len(l)] = Dot THEN r = Err("TrailingDot")
              ELSE IF Offences(l) # {} THEN r = Err(OffenceKind(l))
              ELSE TRUE
           /\ l = <<Dot>> => r = Err("LeadingDot")
           /\ l = <<97, Dot, Dot, 98>> => r = Err("ConsecutiveDots")

\* C24 witness: the local part "." is reported as a leading dot
C24_Witness ==
    /\ OneAt
    /\ Local = <<Dot>>
    /\ Rejected_with("LeadingDot")

\* The local part passes the checks validate_local_part makes on its bytes
PassesByteChecks(l) ==
    /\ l # <<>>
    /\ Len(l) <= 64
    /\ l[1] # Dot
    /\ l[Len(l)] # Dot
    /\ Offences(l) = {}

\* The characters C25 names: the non-ASCII controls, U+200B to U+200D, U+FEFF
UnsafeNonAscii == (128..159) \cup (8203..8205) \cup {65279}

\* C25: with the flag set, a local part that passes the byte-level checks
\* and has a non-ASCII control character, a zero-width character
\* U+200B-U+200D or U+FEFF is rejected with InvalidCharacter; an ASCII local
\* part that passes the byte-level checks is never rejected by the re-scan.
C25_UnsafeUnicodeRejected ==
    (validated.some /\ OneAt /\ allow_smtputf8) =>
        LET l == Local
            cs == chars(l)
        IN PassesByteChecks(l) =>
             /\ (\E k \in 1..Len(cs) : cs[k] \in UnsafeNonAscii)
                   => validated.value = Err("InvalidCharacter")
             /\ ~NonAscii(l) =>
                   /\ validate_local_part(l, TRUE) = OkUnit
                   /\ validated.value.ok <=> validate_domain(Domain).ok

\* C25 witness: a letter followed by U+FEFF, rejected with the flag set
C25_Witness ==
    /\ allow_smtputf8
    /\ OneAt
    /\ Local = <<97, 239, 187, 191>>
    /\ Rejected_with("InvalidCharacter")

\* The defect of a label by check 7 of the domain, "" if it has none
LabelDefect(label) ==
    IF label = <<>> THEN "empty"
    ELSE IF Len(label) > 63 \/ label[1] = Hyphen \/ label[Len(label)] = Hyphen THEN "shape"
    ELSE IF \E i \in 1..Len(label) : ~is_ascii_alphanumeric(label[i]) /\ label[i] # Hyphen
         THEN "byte"
    ELSE ""

\* C26: for an unbracketed domain of at most 253 bytes that maps to ASCII
\* and has a '.', an empty label gives ConsecutiveDots, also when all the
\* other labels are all-digit; a label longer than 63 bytes or with a hyphen
\* at an end is rejected; a byte outside letters, digits and '-' gives
\* InvalidCharacter. Of several defective labels the first one decides.
C26_LabelRules ==
    (validated.some /\ OneAt) =>
        LET d == Domain
            mapped == domain_to_ascii(d)
        IN (/\ validate_local_part(Local, allow_smtputf8).ok
            /\ d # <<>> /\ ~Bracketed(d) /\ Len(d) <= 253
            /\ mapped.ok /\ contains(mapped.value, Dot))
           => LET labels == split(mapped.value, Dot)
                  bad == {k \in 1..Len(labels) : LabelDefect(labels[k]) # ""}
                  first == LabelDefect(labels[Min(bad)])
              IN bad # {} =>
                   /\ first = "empty" => validated.value = Err("ConsecutiveDots")
                   /\ first = "shape" => ~validated.value.ok
                   /\ first = "byte" => validated.value = Err("InvalidCharacter")

\* C27: AdaptiveValidator::validate returns true only for inputs the full
\* validator accepts, and returns false through the filter or the scorer
\* only for inputs the full validator rejects.
C27_AcceleratorsConservative ==
    (adaptive.result.some /\ validated.some) =>
        LET answer == adaptive.result.value[1]
            method == adaptive.result.value[2]
        IN /\ answer => validated.value.ok
           /\ (~answer /\ method \in {"Filter", "Neural"}) => ~validated.value.ok

\* A bucket that is not 0 keeps its value
WriteOnce ==
    \A i \in DOMAIN buckets : buckets[i] # Zero => buckets'[i] = buckets[i]

\* A check that returned Some(r) found what an insert stored for its hash
CheckSound ==
    \A t \in Threads :
        LET th == threads[t]
        IN (th.pc = "idle" /\ th.op = "check" /\ th.ret.value.some)
           => <<hashes[th.email], th.ret.value.value>> \in log.stored

\* A check made after insert(e, r) returned (into a cache with a free bucket
\* among e's 8) returned Some(r)
CheckComplete ==
    \A t \in Threads :
        LET th == threads[t]
        IN (th.pc = "idle" /\ th.op = "check")
           => \A ins \in th.seen : ins[1] = th.email => th.ret.value = Some(ins[2])

\* C30: under every interleaving of insert and check, a bucket that is not 0
\* is never overwritten, check(e) returns Some(r) only if an insert stored r
\* for an email with e's hash, and once insert(e, r) has returned into a
\* cache with a free bucket among e's 8 probe slots every later check(e)
\* returns Some(r).
C30_FaithfulWriteOnceCache ==
    [][WriteOnce]_vars /\ [](CheckSound /\ CheckComplete)

\* The i-th answer of the batch is is_valid of the i-th email under the
\* batch's flag
HonoursFlag(i) == results.value[i] <=> is_valid_fast(emails[i], allow_smtputf8)

\* C28: batch_is_valid honours its flag for every batch size: element i of
\* the result is is_valid(emails[i], allow_smtputf8), for batches of at most
\* 16 items and for the larger ones that pipelined_validation handles.
C28_BatchHonoursFlag ==
    results.some =>
        /\ Len(emails) <= 16 => \A i \in 1..Len(emails) : HonoursFlag(i)
        /\ Len(emails) > 16 => \A i \in 1..Len(emails) : HonoursFlag(i)

\* C29: an Err of validate is never Generic: it is one of Empty, MissingAt,
\* MultipleAt, LeadingDot, TrailingDot, ConsecutiveDots, LocalPartTooLong,
\* DomainTooLong, InvalidDomain, InvalidCharacter; and Empty is the error of
\* an empty or all-whitespace input and of an address with an empty local
\* part.
C29_GenericUnreachable ==
    validated.some =>
        LET r == validated.value
            t == Trimmed
        IN /\ ~r.ok => r.err \in {"Empty", "MissingAt", "MultipleAt", "LeadingDot",
                                  "TrailingDot", "ConsecutiveDots", "LocalPartTooLong",
                                  "DomainTooLong", "InvalidDomain", "InvalidCharacter"}
           /\ t = <<>> => r = Err("Empty")
           /\ (Cardinality(at_positions(t)) = 1 /\ t[1] = At) => r = Err("Empty")

\* C29 witness: an address with an empty local part, rejected with Empty
C29_Witness ==
    /\ OneAt
    /\ Local = <<>>
    /\ Len(Domain) > 0
    /\ Rejected_with("Empty")

====
